---- MODULE Spec2Model ----
(***************************************************************************)
(* Model of the product catalog of the rust-project scratch crate:         *)
(*   models.rs   Product { id, name, price, active }, Product::new,        *)
(*               Product::deactivate                                       *)
(*   service.rs  ProductService { products: Vec<Product>, next_id: u64 },  *)
(*               new, add_product, find_by_name, list_products,            *)
(*               remove_product                                            *)
(*                                                                         *)
(* References handed out by the service (&Product, Option<&Product>,       *)
(* &[Product]) are modelled as positions in the vector: Some(i) is a       *)
(* reference to products[i] (1-based), None is the absent Option.          *)
(*                                                                         *)
(* next_id is a u64.  TLC's integers cannot hold 2^64, so the counter is   *)
(* modelled as an unsigned integer of IdBits bits; `self.next_id += 1` is  *)
(* the checked add of the build profile: it panics when overflow-checks    *)
(* are on (the dev profile) and wraps modulo 2^IdBits when they are off    *)
(* (the release profile).                                                  *)
(*                                                                         *)
(* ProductService keeps `products` private and hands out shared references *)
(* only, so Product::deactivate (which needs &mut Product) can act only on *)
(* a Product the caller owns: the variable `item`.                         *)
(***************************************************************************)
EXTENDS Integers, Sequences, FiniteSets, TLC

\* Width of the id counter in the model (u64 in the code).
IdBits == 2
\* Largest number of products the vector holds in the model.
MaxLen == 3

U64_MAX == 2^IdBits - 1
U64 == 0..U64_MAX
\* Cap of the history counter `adds`: one call past the wrap of the counter,
\* the call that hands out id 1 a second time.
MaxAdds == 2^IdBits + 1

Names == {"Widget", "widget"}
\* A name that is looked up but never stored.
FindNames == Names \cup {"Gadget"}
\* The (name, price) arguments add_product is called with: two names that
\* differ in case only, and one name at two prices (f64 prices as abstract
\* values).
AddInputs == {<<"Widget", "9.99">>, <<"Widget", "0.0">>, <<"widget", "0.0">>}

VARIABLES
    products,         \* ProductService.products : Vec<Product>
    next_id,          \* ProductService.next_id : u64
    overflow_checks,  \* build profile: does `+=` panic on overflow
    status,           \* "ok", or "panicked" once an operation aborted
    call,             \* the last call: [op, arg, ret]
    adds,             \* number of add_product calls made so far
    removed,          \* number of remove_product calls that returned true
    item              \* a Product owned by the caller, outside the service

vars == <<products, next_id, overflow_checks, status, call, adds, removed, item>>

None == <<>>
Some(x) == <<x>>

\* models.rs: Product::new
Product_new(id, name, price) ==
    [id |-> id, name |-> name, price |-> price, active |-> TRUE]

deactivate_toggle(p) == [p EXCEPT !.active = ~p.active]

\* models.rs: Product::deactivate
deactivate(p) == [p EXCEPT !.active = FALSE]

\* the closure |p| p.name == name of find_by_name
name_matches(p, name) == p.name = name

\* the closure |p| p.id == id of remove_product
id_matches(p, id) == p.id = id

\* Vec::push
push(v, p) == Append(v, p)

\* slice::last
last(v) == IF Len(v) = 0 THEN None ELSE Some(Len(v))

swap_remove(v, pos) ==
    [i \in 1..(Len(v) - 1) |-> IF i = pos THEN v[Len(v)] ELSE v[i]]

\* Vec::remove: ordered delete, the elements after pos shift left
remove(v, pos) ==
    [i \in 1..(Len(v) - 1) |-> IF i < pos THEN v[i] ELSE v[i + 1]]

RECURSIVE find_from(_, _, _)
\* Iterator::find over products.iter(), scanning from position i
find_from(v, name, i) ==
    IF i > Len(v) THEN None
    ELSE IF name_matches(v[i], name) THEN Some(i)
    ELSE find_from(v, name, i + 1)

RECURSIVE rfind_from(_, _, _)
rfind_from(v, name, i) ==
    IF i < 1 THEN None
    ELSE IF name_matches(v[i], name) THEN Some(i)
    ELSE rfind_from(v, name, i - 1)

find_by_name_last(v, name) == rfind_from(v, name, Len(v))

\* service.rs: ProductService::find_by_name
find_by_name(v, name) == find_from(v, name, 1)

RECURSIVE position_from(_, _, _)
\* Iterator::position over products.iter(), scanning from position i
position_from(v, id, i) ==
    IF i > Len(v) THEN None
    ELSE IF id_matches(v[i], id) THEN Some(i)
    ELSE position_from(v, id, i + 1)

position(v, id) == position_from(v, id, 1)

\* service.rs: ProductService::list_products
list_products(v) == v

Init ==
    /\ products = <<>>
    /\ next_id = 1
    /\ overflow_checks \in BOOLEAN
    /\ status = "ok"
    /\ call = [op |-> "new", arg |-> None, ret |-> None]
    /\ adds = 0
    /\ removed = 0
    /\ item = Product_new(U64_MAX, "Widget", "9.99")

\* service.rs: ProductService::add_product
AddProduct(name, price) ==
    /\ status = "ok"
    /\ Len(products) < MaxLen
    /\ adds < MaxAdds
    /\ adds' = adds + 1
    /\ LET product == Product_new(next_id, name, price) IN
       IF next_id = U64_MAX /\ overflow_checks
       THEN \* `self.next_id += 1` panics: attempt to add with overflow
            /\ status' = "panicked"
            /\ call' = [op |-> "add", arg |-> <<name, price>>, ret |-> None]
            /\ UNCHANGED <<products, next_id>>
       ELSE LET pushed == push(products, product) IN
            /\ next_id' = (next_id + 1) % (2^IdBits)
            /\ products' = pushed
            \* self.products.last().unwrap()
            /\ status' = IF last(pushed) = None THEN "panicked" ELSE "ok"
            /\ call' = [op |-> "add", arg |-> <<name, price>>, ret |-> last(pushed)]
    /\ UNCHANGED <<overflow_checks, removed, item>>

\* A self-organising lookup: the product found is moved to the front.
FindByName_move_to_front(name) ==
    /\ status = "ok"
    /\ LET found == find_by_name(products, name) IN
       /\ call' = [op |-> "find", arg |-> name, ret |-> found]
       /\ products' = IF found = None THEN products
                      ELSE <<products[found[1]]>> \o remove(products, found[1])
    /\ UNCHANGED <<next_id, overflow_checks, status, adds, removed, item>>

\* service.rs: ProductService::find_by_name, as called
FindByName(name) ==
    /\ status = "ok"
    /\ call' = [op |-> "find", arg |-> name, ret |-> find_by_name(products, name)]
    /\ UNCHANGED <<products, next_id, overflow_checks, status, adds, removed, item>>

\* service.rs: ProductService::list_products, as called
ListProducts ==
    /\ status = "ok"
    /\ call' = [op |-> "list", arg |-> None, ret |-> list_products(products)]
    /\ UNCHANGED <<products, next_id, overflow_checks, status, adds, removed, item>>

\* A removal that hands the freed id back to the counter.
RemoveProduct_reuse_id(id) ==
    /\ status = "ok"
    /\ LET pos == position(products, id) IN
       IF pos # None
       THEN /\ products' = remove(products, pos[1])
            /\ removed' = removed + 1
            /\ next_id' = id
            /\ call' = [op |-> "remove", arg |-> id, ret |-> TRUE]
       ELSE /\ UNCHANGED <<products, removed, next_id>>
            /\ call' = [op |-> "remove", arg |-> id, ret |-> FALSE]
    /\ UNCHANGED <<overflow_checks, status, adds, item>>

\* service.rs: ProductService::remove_product
RemoveProduct(id) ==
    /\ status = "ok"
    /\ LET pos == position(products, id) IN
       IF pos # None
       THEN /\ products' = remove(products, pos[1])
            /\ removed' = removed + 1
            /\ call' = [op |-> "remove", arg |-> id, ret |-> TRUE]
       ELSE /\ UNCHANGED <<products, removed>>
            /\ call' = [op |-> "remove", arg |-> id, ret |-> FALSE]
    /\ UNCHANGED <<next_id, overflow_checks, status, adds, item>>

\* models.rs: Product::deactivate called on the caller's own Product
Deactivate ==
    /\ status = "ok"
    /\ item' = deactivate(item)
    /\ call' = [op |-> "deactivate", arg |-> item.active, ret |-> None]
    /\ UNCHANGED <<products, next_id, overflow_checks, status, adds, removed>>

Next ==
    \/ \E in \in AddInputs : AddProduct(in[1], in[2])
    \/ \E name \in FindNames : FindByName(name)
    \/ ListProducts
    \/ \E id \in U64 : RemoveProduct(id)
    \/ Deactivate

Spec == Init /\ [][Next]_vars

(***************************************************************************)
(* Vocabulary of the properties, defined without the operators above.      *)
(***************************************************************************)
Idx(v) == 1..Len(v)

\* v with the element at position i deleted and the rest in order
Without(v, i) == SubSeq(v, 1, i - 1) \o SubSeq(v, i + 1, Len(v))

\* the first position of v whose name is n, as an Option
FirstNamed(v, n) ==
    LET S == {i \in Idx(v) : v[i].name = n} IN
    IF S = {} THEN None ELSE Some(CHOOSE i \in S : \A j \in S : i <= j)

HasId(v, id) == \E i \in Idx(v) : v[i].id = id

(***************************************************************************)
(* C1: the id of the item returned by the k-th add_product call on a fresh *)
(* service is exactly k (1, 2, 3, ... in call order, never reused).        *)
(***************************************************************************)
C1_IdsInCallOrder ==
    (call.op = "add" /\ status = "ok") =>
        /\ call.ret # None
        /\ products[call.ret[1]].id = adds

(***************************************************************************)
(* C2: remove_product(id) with the id stored removes exactly one item      *)
(* carrying that id, keeps the others in their order, returns true, and an *)
(* immediately following remove_product(id) returns false.                 *)
(***************************************************************************)
C2_RemoveStep ==
    /\ (call'.op = "remove" /\ HasId(products, call'.arg)) =>
        /\ call'.ret = TRUE
        /\ \E i \in Idx(products) :
              /\ products[i].id = call'.arg
              /\ products' = Without(products, i)
    /\ (call.op = "remove" /\ call.ret = TRUE /\ call'.op = "remove"
          /\ call'.arg = call.arg) => call'.ret = FALSE

C2_RemoveExisting == [][C2_RemoveStep]_vars

(***************************************************************************)
(* C3: find_by_name(n) returns the first stored product, in insertion      *)
(* order, whose name equals n exactly (case-sensitively), and None iff no  *)
(* stored product has that name.                                           *)
(***************************************************************************)
C3_FindFirstByName ==
    /\ \A n \in FindNames : find_by_name(products, n) = FirstNamed(products, n)
    /\ call.op = "find" => call.ret = FirstNamed(products, call.arg)

C3_Witness ==
    /\ call.op = "find"
    /\ Len(products) = 3
    /\ call.ret = Some(2)
    /\ products[3].name = call.arg
    /\ products[1].name # call.arg

(***************************************************************************)
(* C4: list_products returns exactly the products added and not removed,   *)
(* each once, in the order added: an add appends one product and keeps the *)
(* rest, a removal deletes one product and keeps the order of the rest,    *)
(* nothing else changes the collection, and the listing is the collection. *)
(***************************************************************************)
C4_ListStep ==
    /\ (call'.op = "add" /\ status' = "ok") =>
        /\ Len(products') = Len(products) + 1
        /\ SubSeq(products', 1, Len(products)) = products
    /\ call'.op = "remove" =>
        IF call'.ret
        THEN \E i \in Idx(products) : products' = Without(products, i)
        ELSE products' = products
    /\ call'.op \notin {"add", "remove"} => products' = products
    /\ call'.op = "list" => call'.ret = products'
    /\ status' = "ok" => Len(products') = adds' - removed'

C4_ListInInsertionOrder == [][C4_ListStep]_vars

C4_Witness ==
    /\ call.op = "list"
    /\ Len(call.ret) = 2
    /\ removed >= 1
    /\ call.ret[1].id < call.ret[2].id

(***************************************************************************)
(* C5: remove_product never changes next_id; when no stored product has    *)
(* the id it returns false, leaves the collection unchanged and does not   *)
(* abort.                                                                  *)
(***************************************************************************)
C5_RemoveStep ==
    call'.op = "remove" =>
        /\ next_id' = next_id
        /\ ~HasId(products, call'.arg) =>
              /\ call'.ret = FALSE
              /\ products' = products
              /\ status' = "ok"

C5_RemoveKeepsNextId == [][C5_RemoveStep]_vars

C5_Witness ==
    /\ call.op = "remove"
    /\ call.ret = FALSE
    /\ removed >= 1
    /\ Len(products) >= 1
    /\ call.arg >= 1
    /\ call.arg < next_id

(***************************************************************************)
(* C6: add_product(name, price) with next_id = k appends exactly one       *)
(* product with id k, the given name and price and active = true, sets     *)
(* next_id to k + 1, keeps the stored products and their order, and        *)
(* returns a reference to the stored last element.                         *)
(***************************************************************************)
C6_AddStep ==
    call'.op = "add" =>
        /\ products' = products \o
              <<[id |-> next_id, name |-> call'.arg[1], price |-> call'.arg[2],
                 active |-> TRUE]>>
        /\ next_id' = next_id + 1
        /\ call'.ret = Some(Len(products'))

C6_AddAppends == [][C6_AddStep]_vars

(***************************************************************************)
(* C7: deactivate sets active to false, is idempotent, changes no other    *)
(* field, is one-way (no operation sets active back to true) and does not  *)
(* change what find_by_name or list_products return.                       *)
(***************************************************************************)
C7_DeactivateStep ==
    /\ call'.op = "deactivate" =>
        /\ item' = [id |-> item.id, name |-> item.name, price |-> item.price,
                    active |-> FALSE]
        /\ list_products(products') = list_products(products)
        /\ \A n \in FindNames :
              /\ find_by_name(products', n) = find_by_name(products, n)
              /\ name_matches(item', n) = name_matches(item, n)
    /\ ~item.active => ~item'.active
    /\ \A i \in Idx(products) \cap Idx(products') :
          (products'[i].id = products[i].id /\ ~products[i].active)
              => ~products'[i].active

C7_DeactivateIdempotent == [][C7_DeactivateStep]_vars

C7_Witness ==
    /\ call.op = "deactivate"
    /\ call.arg = FALSE
    /\ item.active = FALSE
    /\ Len(products) >= 1

(***************************************************************************)
(* C8: no operation aborts in any reachable state, add_product included    *)
(* when next_id is at the maximum of its type.                             *)
(***************************************************************************)
C8_NoAbort == status = "ok"

(***************************************************************************)
(* C9: the ids of the stored products are at least 1, below next_id and    *)
(* strictly increasing by position (so pairwise distinct); next_id is 1    *)
(* plus the number of add_product calls made and never decreases.          *)
(***************************************************************************)
C9_Inv ==
    status = "ok" =>
    /\ \A i \in Idx(products) : products[i].id >= 1 /\ products[i].id < next_id
    /\ \A i, j \in Idx(products) : i < j => products[i].id < products[j].id
    /\ next_id = 1 + adds

C9_IdInvariant == [][C9_Inv' /\ next_id' >= next_id]_vars

(***************************************************************************)
(* C10: find_by_name and list_products are pure reads: they leave the      *)
(* collection and next_id unchanged, so the same read repeated at once     *)
(* returns the same result; no step changes a stored product's id.         *)
(***************************************************************************)
C10_ReadStep ==
    /\ call'.op \in {"find", "list"} =>
        /\ products' = products
        /\ next_id' = next_id
        /\ item' = item
    /\ call'.op = "find" => call'.ret = find_by_name(products', call'.arg)
    /\ call'.op = "list" => call'.ret = list_products(products')
    /\ call'.op # "remove" =>
          \A i \in Idx(products) :
              i \in Idx(products') /\ products'[i].id = products[i].id
    /\ call'.op = "remove" =>
          \A i \in Idx(products') :
              \E j \in {i, i + 1} \cap Idx(products) : products'[i] = products[j]

C10_ReadsArePure == [][C10_ReadStep]_vars

C10_Witness ==
    /\ call.op = "find"
    /\ call.ret # None
    /\ Len(products) >= 2
    /\ call.ret[1] >= 2

====
